---- MODULE Spec2Model ----
(***************************************************************************)
(* The isolate driver of core/isolate.rs: Isolate::execute, dispatch_op,   *)
(* shared_init and the Future::poll implementation, over the IsolateInner  *)
(* state held in Rc<RefCell<IsolateInner>>.  JavaScript is the environment:*)
(* a running script is a sequence of calls into the native bindings.       *)
(***************************************************************************)
EXTENDS Integers, Sequences, FiniteSets, TLC

\* ------------------------------------------------------------------ bounds
\* Number of core.dispatch calls with a registered id over one run.
MaxDispatch == 2
\* Record-area capacity of the shared queue, in bytes (scaled down).
QueueSize == 16
\* Record slots of the shared queue (scaled down).
MaxRecords == 2
\* How many Isolate values made by from_v8 are alive at once at most.
MaxHandles == 2

\* The ids register_op handed out: two ops are registered.
OpIds == {1, 2}
\* An id nothing was registered under (test_pre_dispatch uses 100).
UnknownOpId == 100
\* The promises JS may reject without a handler (keys of the rejection table).
PromiseKeys == {1}

\* Payloads: a one-byte buffer and one larger than the whole queue.
SmallBuf == [len |-> 1, b0 |-> 43]
BigBuf == [len |-> QueueSize + 1, b0 |-> 4]
Bufs == {SmallBuf, BigBuf}

\* What a handler may return: Op::Sync(buf), Op::Async(fut), Op::AsyncUnref(fut).
\* st is the state of the future: "ready" (completes with Ok(buf) when polled),
\* "waiting" (not complete yet, may complete later or never), "err" (completes
\* with Err; no payload is ever read from it).
Ops ==
  [kind : {"Sync"}, buf : Bufs, st : {"ready"}] \cup
  [kind : {"Async", "AsyncUnref"}, buf : Bufs, st : {"ready", "waiting"}] \cup
  [kind : {"Async", "AsyncUnref"}, buf : {SmallBuf}, st : {"err"}]

\* The handler argument of a dispatch whose id has no handler.
NoOp == [kind |-> "Sync", buf |-> SmallBuf, st |-> "ready"]

\* No dispatch call has been made by the running script.
NoCall == [op_id |-> 0, kind |-> "none", buf |-> <<>>, ret |-> <<>>, thrown |-> FALSE]

VARIABLES
  pc,                          \* where the host thread is
  caller,                      \* which operation shared_init's startup script returns to
  step,                        \* the operation that produced this state
  result,                      \* what the last execute / poll returned
  needs_init,
  startup_script,              \* Option<OwnedScript>: TRUE = Some
  last_exception,              \* Option<String>: <<>> = None
  pending_promise_exceptions,
  js_recv_cb,                  \* v8::Global<Function>: TRUE = set
  shared,                      \* SharedQueue
  pending_ops,
  pending_unref_ops,
  have_unpolled_ops,
  waker_registered,
  woken,                       \* the last poll called waker.wake()
  dispatch_count,              \* handler invocations (the tests' dispatch_count)
  dispatch_calls,              \* calls of core.dispatch with a registered id
  last_call,                   \* the running script's last core.dispatch call:
                               \* its op id, what the handler returned (kind,
                               \* buf), what the call returned (ret), whether
                               \* it threw
  delivered,                   \* responses handed to the JS receive callback
  snapshot_creator,            \* Option<v8::SnapshotCreator>: TRUE = Some
  has_snapshotted,
  global_context,              \* v8::Global<v8::Context>: TRUE = holds a context
  new_args,                    \* the arguments of Isolate::new, while the
                               \* state is the one it produced: <<>> otherwise
  terminating,                 \* the engine's answer to is_execution_terminating
  handled,                     \* what handle_exception did, while the state is
                               \* the one its caller produced: <<>> otherwise
  bootstrap_runs,              \* how many times shared_queue.js has been run
  js_error_create,             \* the configured error constructor
  error,                       \* the error the last operation built to return
  v8_isolate,                  \* v8_isolate is Some: the state owns the engine
  engine,                      \* what has become of the engine's isolate and
                               \* of its snapshot creator
  handles,                     \* how many Isolate values made by from_v8 live
  borrow_flag,                 \* the borrow flag of the driver-state RefCell
                               \* at the operation's current position
  poll_trace,                  \* of the current / last poll: the queue's size
                               \* after the loop, the receive-callback calls
  yielded                      \* the futures (fid, and st: how they completed)
                               \* pending_ops yielded in the current / last
                               \* poll, in order

vars == <<pc, caller, step, result, needs_init, startup_script, last_exception,
          pending_promise_exceptions, js_recv_cb, shared, pending_ops,
          pending_unref_ops, have_unpolled_ops, waker_registered, woken,
          dispatch_count, dispatch_calls, last_call, delivered, snapshot_creator, has_snapshotted,
          global_context, new_args, terminating, handled, bootstrap_runs,
          js_error_create, error, v8_isolate, engine, handles, borrow_flag,
          poll_trace, yielded>>

\* magic_number: 0xCAFE_BABE, written once by Isolate::new; as its two 16-bit
\* halves 0xCAFE and 0xBABE.
MagicNumber == <<51966, 47806>>

\* A poll that has not reached the end of its loop and called nothing.
NoTrace == [after_drain |-> <<>>, recv_calls |-> <<>>]

\* The driver state as one record, so that the sequential code of an operation
\* is a composition of functions on it.  run_startup, overflow_response,
\* poll_result, res (a Result) and panic are locals of the operations.
Cur ==
  [needs_init |-> needs_init, startup_script |-> startup_script,
   last_exception |-> last_exception,
   pending_promise_exceptions |-> pending_promise_exceptions,
   js_recv_cb |-> js_recv_cb, shared |-> shared, pending_ops |-> pending_ops,
   pending_unref_ops |-> pending_unref_ops,
   have_unpolled_ops |-> have_unpolled_ops,
   waker_registered |-> waker_registered, woken |-> woken,
   dispatch_count |-> dispatch_count, dispatch_calls |-> dispatch_calls,
   last_call |-> last_call, delivered |-> delivered, yielded |-> yielded,
   bootstrap_runs |-> bootstrap_runs,
   snapshot_creator |-> snapshot_creator, has_snapshotted |-> has_snapshotted,
   global_context |-> global_context, new_args |-> <<>>,
   terminating |-> terminating, handled |-> <<>>,
   js_error_create |-> js_error_create, error |-> <<>>,
   borrow_flag |-> borrow_flag, poll_trace |-> NoTrace,
   v8_isolate |-> v8_isolate, engine |-> engine, handles |-> handles,
   magic_number |-> MagicNumber,
   run_startup |-> FALSE, overflow_response |-> <<>>, poll_result |-> "Running",
   res |-> "Ok", panic |-> FALSE]

Commit(s) ==
  /\ needs_init' = s.needs_init
  /\ startup_script' = s.startup_script
  /\ last_exception' = s.last_exception
  /\ pending_promise_exceptions' = s.pending_promise_exceptions
  /\ js_recv_cb' = s.js_recv_cb
  /\ shared' = s.shared
  /\ pending_ops' = s.pending_ops
  /\ pending_unref_ops' = s.pending_unref_ops
  /\ have_unpolled_ops' = s.have_unpolled_ops
  /\ waker_registered' = s.waker_registered
  /\ woken' = s.woken
  /\ dispatch_count' = s.dispatch_count
  /\ dispatch_calls' = s.dispatch_calls
  /\ last_call' = s.last_call
  /\ delivered' = s.delivered
  /\ yielded' = s.yielded
  /\ bootstrap_runs' = s.bootstrap_runs
  /\ js_error_create' = s.js_error_create
  /\ error' = s.error
  /\ poll_trace' = s.poll_trace
  /\ borrow_flag' = s.borrow_flag
  /\ v8_isolate' = s.v8_isolate
  /\ engine' = s.engine
  /\ handles' = s.handles
  /\ snapshot_creator' = s.snapshot_creator
  /\ has_snapshotted' = s.has_snapshotted
  /\ global_context' = s.global_context
  /\ new_args' = s.new_args
  /\ terminating' = s.terminating
  /\ handled' = s.handled

\* ------------------------------------------------------------ SharedQueue
align4(n) == ((n + 3) \div 4) * 4

EmptyQueue == [records |-> <<>>, num_shifted_off |-> 0, head |-> 0]

\* size(): records pushed and not yet shifted off.
size(q) == Len(q.records) - q.num_shifted_off

\* push(op_id, buf): the padded record (4 bytes of op id, the payload) must fit.
push_fits(q, buf) ==
  /\ Len(q.records) < MaxRecords
  /\ q.head + 4 + align4(buf.len) <= QueueSize

push(q, rec) ==
  [q EXCEPT !.records = Append(@, rec),
            !.head = @ + 4 + align4(rec.buf.len)]

\* JS shifts k records off; a fully drained queue is reset.
shift_n(q, k) ==
  IF q.num_shifted_off + k = Len(q.records) THEN EmptyQueue
  ELSE [q EXCEPT !.num_shifted_off = @ + k]

\* The records the next k shifts return, in order.
shifted(q, k) == SubSeq(q.records, q.num_shifted_off + 1, q.num_shifted_off + k)

\* -------------------------------------------------------------- RefCell
\* The borrow flag of RefCell<IsolateInner>: 0 unborrowed, -1 mutably borrowed,
\* n > 0 shared borrows.  borrow_mut() panics unless the flag is 0.
can_borrow_mut(flag) == flag = 0
can_borrow(flag) == flag >= 0

\* borrow_mut() / borrow() on the cell of driver state s, and the drop of the
\* guard they return; a refused borrow panics.
borrow_mut(s) ==
  IF can_borrow_mut(s.borrow_flag) THEN [s EXCEPT !.borrow_flag = -1]
  ELSE [s EXCEPT !.panic = TRUE]
borrow(s) ==
  IF can_borrow(s.borrow_flag) THEN [s EXCEPT !.borrow_flag = @ + 1]
  ELSE [s EXCEPT !.panic = TRUE]
drop_guard(s) ==
  IF s.panic THEN s
  ELSE [s EXCEPT !.borrow_flag = IF @ = -1 THEN 0 ELSE @ - 1]

\* `let mut hs = v8::HandleScope::new2(self.0.borrow_mut().v8_isolate
\* .as_mut().unwrap());`: the RefMut is a temporary of the let statement and is
\* dropped at its end, before the script is compiled and run.
enter_scope(s) ==
  LET s1 == borrow_mut(s)
  IN IF s1.panic \/ s1.v8_isolate THEN drop_guard(s1)
     ELSE \* .as_mut().unwrap() on None
          [s1 EXCEPT !.panic = TRUE]

\* Isolate::v8_isolate(): the Ref is a local of the function.
get_v8_isolate(s) ==
  LET s1 == borrow(s)
  IN IF s1.panic \/ s1.v8_isolate THEN drop_guard(s1)
     ELSE \* .as_ref().unwrap() on None
          [s1 EXCEPT !.panic = TRUE]

\* ------------------------------------------------------------ OpRegistry
\* call(id, control, zero_copy): Some(handler(control, zero_copy)) when id is
\* registered, None otherwise.  handler_op is what the handler returns.
OpRegistryCall(op_id, handler_op) ==
  IF op_id \in OpIds THEN <<handler_op>> ELSE <<>>

\* -------------------------------------------------------------- exceptions
\* The thread-safe handle of the engine: terminate_execution,
\* cancel_terminate_execution.
terminate_execution(s) == [s EXCEPT !.terminating = TRUE]
cancel_terminate_execution(s) == [s EXCEPT !.terminating = FALSE]

\* What a caught exception may be: a value JS threw (named after where it was
\* caught), null, undefined.
NullOrUndefined == {"null", "undefined"}

\* handle_exception: the serialized message is stashed in last_exception.
\* Termination is cancelled while the message is created and requested again
\* afterwards.  handled records the call: whether the engine was terminating
\* on entry, while the message was created and on return, the exception given
\* and the stash on return.
\* (handle_exception_stays_cancelled: termination not requested again.)
handle_exception_stays_cancelled(s, exception) ==
  LET is_terminating_exception == s.terminating
      s1 == IF is_terminating_exception THEN cancel_terminate_execution(s) ELSE s
      exc == IF is_terminating_exception /\ exception \in NullOrUndefined
               THEN "execution terminated" ELSE exception
  IN [s1 EXCEPT !.last_exception = <<exc>>,
                !.handled = <<[was_terminating |-> is_terminating_exception,
                               at_message |-> s1.terminating,
                               on_return |-> s1.terminating,
                               exception |-> exception,
                               last_exception |-> <<exc>>]>>]
handle_exception(s, exception) ==
  LET is_terminating_exception == s.terminating
      s1 == IF is_terminating_exception THEN cancel_terminate_execution(s) ELSE s
      exc == IF is_terminating_exception /\ exception \in NullOrUndefined
               THEN "execution terminated" ELSE exception
      s2 == [s1 EXCEPT !.last_exception = <<exc>>]
      s3 == IF is_terminating_exception THEN terminate_execution(s2) ELSE s2
  IN [s3 EXCEPT !.handled = <<[was_terminating |-> is_terminating_exception,
                               at_message |-> s1.terminating,
                               on_return |-> s3.terminating,
                               exception |-> exception,
                               last_exception |-> s3.last_exception]>>]

\* The error constructors: the default, CoreJSError::from_v8_exception, and
\* one the embedder sets with set_js_error_create.
DefaultErrorCreate == "CoreJSError::from_v8_exception"
ErrorCreators == {DefaultErrorCreate, "custom"}

\* check_last_exception: take() the stash; Err(js_error_create(..)) if it held one.
\* (check_last_exception_peek: the stash read and left in place.)
check_last_exception_peek(s) ==
  IF s.last_exception = <<>> THEN [s EXCEPT !.res = "Ok"]
  ELSE [s EXCEPT !.res = "Err",
                 !.error = <<[create |-> s.js_error_create,
                              exception |-> s.last_exception[1]]>>]
check_last_exception(s) ==
  IF s.last_exception = <<>> THEN [s EXCEPT !.res = "Ok"]
  ELSE [s EXCEPT !.last_exception = <<>>, !.res = "Err",
                 !.error = <<[create |-> s.js_error_create,
                              exception |-> s.last_exception[1]]>>]

exception_to_err_result(s, exception) ==
  check_last_exception(handle_exception(s, exception))

\* -------------------------------------------------------------- dispatch_op
\* How many times op_registry.call runs the handler for one dispatch.
\* (HandlerCallsTwice: a lookup that runs the handler and a second call of it.)
HandlerCallsTwice(maybe_op) == 2 * Len(maybe_op)
HandlerCalls(maybe_op) == Len(maybe_op)

\* "Sync messages ignore the op_id": the id reported with a sync response.
\* (SyncOpIdKept: the dispatch-time id reported instead.)
SyncOpIdKept(op_id) == op_id
SyncOpId(op_id) == 0

\* fut.map_ok(move |buf| (op_id, buf)): the future tagged with the dispatch-time
\* op id.  fid names the dispatch call that created it.
fut2(op_id, op, fid) ==
  [fid |-> fid, op_id |-> op_id, buf |-> op.buf, st |-> op.st]

\* The match on the handler's result.
\* (dispatch_match_unref_as_ref: AsyncUnref futures pushed to pending_ops;
\* dispatch_match_sync_queued: the sync response pushed to the shared queue
\* instead of being returned.)
dispatch_match_unref_as_ref(s, op_id, op) ==
  CASE op.kind = "Sync" ->
         [s EXCEPT !.last_call.ret = <<[op_id |-> SyncOpId(op_id), buf |-> op.buf]>>]
    [] OTHER ->
         [s EXCEPT !.pending_ops = Append(@, fut2(op_id, op, s.dispatch_calls)),
                   !.have_unpolled_ops = TRUE]
dispatch_match_sync_queued(s, op_id, op) ==
  CASE op.kind = "Sync" ->
         [s EXCEPT !.shared = push(@, [fid |-> s.dispatch_calls, op_id |-> op_id, buf |-> SmallBuf])]
    [] op.kind = "Async" ->
         [s EXCEPT !.pending_ops = Append(@, fut2(op_id, op, s.dispatch_calls)),
                   !.have_unpolled_ops = TRUE]
    [] op.kind = "AsyncUnref" ->
         [s EXCEPT !.pending_unref_ops = Append(@, fut2(op_id, op, s.dispatch_calls)),
                   !.have_unpolled_ops = TRUE]
dispatch_match(s, op_id, op) ==
  CASE op.kind = "Sync" ->
         [s EXCEPT !.last_call.ret = <<[op_id |-> SyncOpId(op_id), buf |-> op.buf]>>]
    [] op.kind = "Async" ->
         [s EXCEPT !.pending_ops = Append(@, fut2(op_id, op, s.dispatch_calls)),
                   !.have_unpolled_ops = TRUE]
    [] op.kind = "AsyncUnref" ->
         [s EXCEPT !.pending_unref_ops = Append(@, fut2(op_id, op, s.dispatch_calls)),
                   !.have_unpolled_ops = TRUE]

\* The None arm of `match maybe_op`: a TypeError "Unknown op id: {}" is thrown
\* into JS and dispatch_op returns None.
\* (unknown_op_silent: None returned without throwing.)
unknown_op_silent(s) == s
unknown_op(s) == [s EXCEPT !.last_call.thrown = TRUE]

dispatch_op(s, op_id, handler_op) ==
  LET maybe_op == OpRegistryCall(op_id, handler_op)
      s0 == [s EXCEPT !.dispatch_count = @ + HandlerCalls(maybe_op),
                      !.dispatch_calls = @ + Len(maybe_op),
                      !.last_call = [op_id |-> op_id, kind |-> "unknown",
                                     buf |-> <<>>, ret |-> <<>>,
                                     thrown |-> FALSE]]
  IN IF ~can_borrow_mut(s.borrow_flag)
       THEN \* self.0.borrow_mut().op_registry.call(..): already borrowed
            [s EXCEPT !.panic = TRUE]
     ELSE IF maybe_op = <<>>
       THEN unknown_op(s0)
     ELSE IF size(s0.shared) # 0
       THEN \* debug_assert_eq!(shared.size(), 0)
            [s0 EXCEPT !.last_call.kind = handler_op.kind,
                       !.last_call.buf = <<handler_op.buf>>, !.panic = TRUE]
     ELSE dispatch_match([s0 EXCEPT !.last_call.kind = handler_op.kind,
                                    !.last_call.buf = <<handler_op.buf>>],
                         op_id, handler_op)

\* -------------------------------------------------------------- shared_init
\* Clears needs_init, runs the bootstrap script (a nested execute, whose own
\* shared_init finds the flag cleared) and takes the startup script, which the
\* caller then runs (run_startup).
\* (shared_init_relatch: the flag set again once init is done.)
RECURSIVE shared_init(_)

\* Isolate::global_context: global_context.get(scope).unwrap() panics when the
\* handle has been reset.
get_global_context(s) ==
  LET s1 == borrow(s)
  IN IF s1.panic THEN s1
     ELSE IF s.global_context THEN drop_guard(s1)
     ELSE [s1 EXCEPT !.panic = TRUE]

\* js_check(self.execute("shared_queue.js", ..)): execute calls shared_init
\* first, enters the global context, then runs the script, which only installs
\* the JS side of the queue.
execute_bootstrap(s) ==
  LET s1 == get_global_context(shared_init(s))
  IN IF s1.panic THEN s1 ELSE [s1 EXCEPT !.bootstrap_runs = @ + 1]

shared_init_relatch(s) ==
  IF s.needs_init
    THEN LET s1 == execute_bootstrap([s EXCEPT !.needs_init = FALSE])
         IN [s1 EXCEPT !.startup_script = FALSE,
                       !.run_startup = s1.startup_script,
                       !.needs_init = TRUE]
    ELSE s
shared_init(s) ==
  IF s.needs_init
    THEN LET s1 == execute_bootstrap([s EXCEPT !.needs_init = FALSE])
         IN IF s1.panic THEN s1
            ELSE [s1 EXCEPT !.startup_script = FALSE,
                            !.run_startup = s1.startup_script]
    ELSE s

\* ------------------------------------------------------------ Future::poll
RemoveAt(q, i) == SubSeq(q, 1, i - 1) \o SubSeq(q, i + 1, Len(q))

\* The futures of a FuturesUnordered that complete when polled.  Which of them
\* poll_next yields first is not fixed by the set.
\* (ReadyIdxNone: poll_next reporting Pending whatever has completed.)
ReadyIdxNone(q) == {}
ReadyIdx(q) == {i \in 1..Len(q) : q[i].st \in {"ready", "err"}}

\* The states of S in which the poll has returned (or panicked), and those in
\* which it goes on to its next statement.
Returned(S) == {s \in S : s.poll_result # "Running"}
Running(S) == {s \in S : s.poll_result = "Running"}

\* check_promise_exceptions: one entry of the table (whichever key the HashMap
\* yields first) is removed and returned as an error.
\* (check_promise_exceptions_all: the whole table drained into one error;
\* check_promise_exceptions_never: the table not looked at.)
check_promise_exceptions_all(s) ==
  IF s.pending_promise_exceptions = {} THEN {s}
  ELSE {[exception_to_err_result(
           [s EXCEPT !.pending_promise_exceptions = {}], "rejection")
         EXCEPT !.poll_result = "ReadyErr"]}
check_promise_exceptions_never(s) == {s}
check_promise_exceptions(s) ==
  IF s.pending_promise_exceptions = {} THEN {s}
  ELSE {[exception_to_err_result(
           [s EXCEPT !.pending_promise_exceptions = @ \ {key}], "rejection")
         EXCEPT !.poll_result = "ReadyErr"]
        : key \in s.pending_promise_exceptions}

\* The borrow flag inside the arms of `match isolate.0.borrow_mut()
\* .pending_ops.poll_next_unpin(cx)`: the RefMut is a temporary of the
\* scrutinee, dropped only at the end of the match.
ScrutineeBorrow == -1

\* The loop of poll: one iteration per future yielded by pending_ops.
\* (drain_arm_err_returned: an op error returned from poll as an Err.)
RECURSIVE drain(_)
drain_arm_err_returned(s, i) ==
  LET fut == s.pending_ops[i]
      rec == [fid |-> fut.fid, op_id |-> fut.op_id, buf |-> fut.buf]
      s2 == [s EXCEPT !.pending_ops = RemoveAt(@, i),
                      !.yielded = Append(@, [fid |-> fut.fid, st |-> fut.st])]
  IN IF fut.st = "err"
       THEN {[s2 EXCEPT !.poll_result = "ReadyErr"]}
     ELSE IF ~can_borrow_mut(ScrutineeBorrow)
       THEN {[s2 EXCEPT !.poll_result = "Panic",
                        !.borrow_flag = ScrutineeBorrow]}
     ELSE IF push_fits(s2.shared, fut.buf)
       THEN drain([s2 EXCEPT !.shared = push(@, rec)])
     ELSE {[s2 EXCEPT !.overflow_response = <<rec>>]}
drain_arm(s, i) ==
  LET fut == s.pending_ops[i]
      rec == [fid |-> fut.fid, op_id |-> fut.op_id, buf |-> fut.buf]
      s2 == [s EXCEPT !.pending_ops = RemoveAt(@, i),
                      !.yielded = Append(@, [fid |-> fut.fid, st |-> fut.st])]
  IN IF fut.st = "err"
       THEN \* panic!("unexpected op error")
            {[s2 EXCEPT !.poll_result = "Panic"]}
     ELSE IF ~can_borrow_mut(ScrutineeBorrow)
       THEN \* isolate.0.borrow_mut() in the arm: already borrowed; the
            \* flag is left as it was where the borrow was refused
            {[s2 EXCEPT !.poll_result = "Panic",
                        !.borrow_flag = ScrutineeBorrow]}
     ELSE IF push_fits(s2.shared, fut.buf)
       THEN drain([s2 EXCEPT !.shared = push(@, rec)])
     ELSE {[s2 EXCEPT !.overflow_response = <<rec>>]}

drain(s) ==
  LET s1 == [s EXCEPT !.have_unpolled_ops = FALSE]
  IN IF ReadyIdx(s1.pending_ops) = {}
       THEN {s1}
       ELSE UNION {drain_arm(s1, i) : i \in ReadyIdx(s1.pending_ops)}

\* What the JS receive callback may do when called with n records in the queue:
\* shift records off (any number of them: the callback is whatever function JS
\* registered), dispatch an op, reject a promise nothing handles, throw.
RecvBehaviours(s, n) ==
  [shifts : 0..n, throws : BOOLEAN,
   rejects : {{}} \cup {{key} : key \in PromiseKeys \ s.pending_promise_exceptions},
   dispatches : {<<>>} \cup
     (IF s.dispatch_calls < MaxDispatch
        THEN {<<[op_id |-> i, op |-> o]>> : i \in OpIds, o \in Ops}
        ELSE {})]

Tag(recs, via) ==
  [k \in 1..Len(recs) |->
     [fid |-> recs[k].fid, op_id |-> recs[k].op_id, buf |-> recs[k].buf, via |-> via]]

\* async_op_response: calls js_recv_cb with no arguments (JS drains the queue)
\* or with the overflow record.
\* `let js_recv_cb = self.0.borrow().js_recv_cb.get(scope).expect(..);`: the
\* Ref is a temporary of the let statement.
\* (recv_lookup_holding: the Ref kept while the callback runs.)
recv_lookup_holding(s) == borrow(s)
recv_lookup(s) == drop_guard(borrow(s))

\* .expect("Deno.core.recv has not been called.") on an empty handle.
\* (recv_missing_err: an Err returned instead.)
recv_missing_err(s) == [s EXCEPT !.res = "Err"]
recv_missing(s) == [s EXCEPT !.panic = TRUE]

\* The engine's promise-reject callback inserting into the table of driver
\* state s: it borrows the cell mutably.
promise_reject(s, keys) ==
  IF keys = {} THEN s
  ELSE LET s1 == borrow_mut(s)
       IN IF s1.panic THEN s1
          ELSE drop_guard([s1 EXCEPT !.pending_promise_exceptions = @ \cup keys])

async_op_response(s, maybe_buf) ==
  LET sb == recv_lookup(s)
  IN
  IF sb.panic THEN {sb}
  ELSE IF ~s.js_recv_cb
    THEN {recv_missing(s)}
    ELSE
      {LET s1 == IF maybe_buf = <<>>
                   THEN [sb EXCEPT
                           !.delivered = @ \o Tag(shifted(s.shared, b.shifts), "queue"),
                           !.shared = shift_n(@, b.shifts)]
                   ELSE [sb EXCEPT !.delivered = @ \o Tag(maybe_buf, "overflow")]
           s1r == promise_reject(s1, b.rejects)
           s2d == IF s1r.panic \/ b.dispatches = <<>> THEN s1r
                  ELSE dispatch_op(s1r, b.dispatches[1].op_id, b.dispatches[1].op)
           s2 == [s2d EXCEPT !.poll_trace.recv_calls =
                    Append(@, [arg |-> maybe_buf,
                               borrow_flag |-> sb.borrow_flag,
                               queue_before |-> size(s.shared),
                               queue_after |-> size(s2d.shared),
                               threw |-> b.throws /\ ~s2d.panic])]
       IN IF s2.panic THEN s2
          ELSE IF b.throws THEN exception_to_err_result(s2, "recv")
          ELSE [s2 EXCEPT !.res = "Ok"]
       : b \in RecvBehaviours(s, IF maybe_buf = <<>> THEN size(s.shared) ELSE 0)}

\* `isolate.async_op_response(..)?`: an Err returns from poll, a panic unwinds.
Try(s) ==
  IF s.panic THEN [s EXCEPT !.poll_result = "Panic"]
  ELSE IF s.res = "Err" THEN [s EXCEPT !.poll_result = "ReadyErr"]
  ELSE s

\* (deliver_queue_unasserted: the queue's size not asserted after the call.)
deliver_queue_unasserted(s) ==
  IF size(s.shared) > 0
    THEN {Try(o) : o \in async_op_response(s, <<>>)}
    ELSE {s}
deliver_queue(s) ==
  IF size(s.shared) > 0
    THEN {LET r == Try(o)
          IN IF r.poll_result = "Running" /\ size(r.shared) # 0
               THEN \* assert_eq!(isolate.0.borrow().shared.size(), 0)
                    [r EXCEPT !.poll_result = "Panic"]
               ELSE r
          : o \in async_op_response(s, <<>>)}
    ELSE {s}

deliver_overflow(s) ==
  IF s.overflow_response # <<>>
    THEN {Try(o) : o \in async_op_response(
                           [s EXCEPT !.overflow_response = <<>>],
                           s.overflow_response)}
    ELSE {s}

\* "We're idle if pending_ops is empty."
\* (IsIdleCountingUnref: unref ops keeping the isolate alive as well.)
IsIdleCountingUnref(s) == s.pending_ops = <<>> /\ s.pending_unref_ops = <<>>
IsIdle(s) == s.pending_ops = <<>>

\* (readiness_always_wakes: the waker woken whenever Pending is returned.)
readiness_always_wakes(s) ==
  IF IsIdle(s) THEN {[s EXCEPT !.poll_result = "ReadyOk"]}
  ELSE {[s EXCEPT !.woken = TRUE, !.poll_result = "Pending"]}
readiness(s) ==
  IF IsIdle(s) THEN {[s EXCEPT !.poll_result = "ReadyOk"]}
  ELSE {[s EXCEPT !.woken = s.have_unpolled_ops, !.poll_result = "Pending"]}

\* poll up to and including shared_init.
poll_begin(s) ==
  shared_init([s EXCEPT !.waker_registered = TRUE, !.woken = FALSE,
                        !.yielded = <<>>, !.poll_trace = NoTrace])

\* poll from the first check_promise_exceptions on: the set of outcomes.
poll_rest(s) ==
  LET sv == IF s.panic THEN s ELSE get_v8_isolate(s)
      s0 == IF sv.panic THEN sv ELSE get_global_context(sv)
  IN IF s0.panic THEN {[s0 EXCEPT !.poll_result = "Panic"]} ELSE
  LET S1 == check_promise_exceptions(s0)
      S2 == Returned(S1) \cup UNION {drain(x) : x \in Running(S1)}
      S3 == Returned(S2) \cup
              UNION {deliver_queue([x EXCEPT !.poll_trace.after_drain =
                                               <<size(x.shared)>>])
                     : x \in Running(S2)}
      S4 == Returned(S3) \cup UNION {deliver_overflow(x) : x \in Running(S3)}
      S5 == Returned(S4) \cup
              UNION {check_promise_exceptions(x) : x \in Running(S4)}
  IN Returned(S5) \cup UNION {readiness(x) : x \in Running(S5)}

Init ==
  /\ pc = "idle"
  /\ caller = "none"
  /\ step = "new"
  /\ result = "none"
  /\ needs_init = TRUE
  /\ startup_script \in BOOLEAN
  /\ last_exception = <<>>
  /\ pending_promise_exceptions = {}
  /\ js_recv_cb = FALSE
  /\ shared = EmptyQueue
  /\ pending_ops = <<>>
  /\ pending_unref_ops = <<>>
  /\ have_unpolled_ops = FALSE
  /\ waker_registered = FALSE
  /\ woken = FALSE
  /\ dispatch_count = 0
  /\ dispatch_calls = 0
  /\ last_call = NoCall
  /\ delivered = <<>>
  /\ yielded = <<>>
  /\ bootstrap_runs = 0
  /\ js_error_create = DefaultErrorCreate
  /\ error = <<>>
  /\ poll_trace = NoTrace
  /\ borrow_flag = 0
  /\ v8_isolate = TRUE
  /\ engine = [isolate |-> "alive", creator |-> "none"]
  /\ handles = 0
  /\ snapshot_creator = FALSE
  /\ has_snapshotted = FALSE
  /\ global_context = TRUE
  /\ new_args = <<[startup_data |-> IF startup_script THEN "Script" ELSE "None",
                   will_snapshot |-> FALSE]>>
  /\ terminating = FALSE
  /\ handled = <<>>
\* ----------------------------------------------------------------- actions
\* JS is running (and is not being terminated), so it may call the bindings.
InJs == pc \in {"script", "startup"} /\ ~terminating

\* execute(): shared_init, then the script starts running.
ExecuteBegin ==
  /\ pc = "idle"
  /\ LET s0 == shared_init(Cur)
         s1 == IF s0.panic THEN s0 ELSE enter_scope(s0)
         s == IF s1.panic THEN s1 ELSE get_global_context(s1)
     IN /\ Commit(s)
        /\ pc' = IF s.panic THEN "panicked"
                 ELSE IF s.run_startup THEN "startup" ELSE "script"
        /\ result' = IF s.panic THEN "Panic" ELSE "none"
  /\ caller' = "execute"
  /\ step' = "execute_begin"

\* JS calls Deno.core.dispatch / Deno.core.send: the whole of dispatch_op.
JsDispatch(op_id, handler_op) ==
  /\ InJs
  /\ op_id \in OpIds => dispatch_calls < MaxDispatch
  /\ LET s == dispatch_op(Cur, op_id, handler_op)
     IN /\ Commit(s)
        /\ pc' = IF s.panic THEN "panicked" ELSE pc
  /\ step' = "dispatch"
  /\ UNCHANGED <<caller, result>>

\* JS calls Deno.core.recv(cb); only the first registration is kept.
JsRecv ==
  /\ InJs
  /\ ~js_recv_cb
  /\ Commit([Cur EXCEPT !.js_recv_cb = TRUE])
  /\ step' = "js"
  /\ UNCHANGED <<pc, caller, result>>

\* The engine's promise-reject callback: a rejection without a handler.
JsReject(key) ==
  /\ InJs
  /\ key \notin pending_promise_exceptions
  /\ LET s == promise_reject(Cur, {key})
     IN /\ Commit(s)
        /\ pc' = IF s.panic THEN "panicked" ELSE pc
  /\ step' = "js"
  /\ UNCHANGED <<caller, result>>

\* The engine's promise-reject callback: a handler was attached later.
JsHandlerAdded(key) ==
  /\ InJs
  /\ key \in pending_promise_exceptions
  /\ Commit([Cur EXCEPT !.pending_promise_exceptions = @ \ {key}])
  /\ step' = "js"
  /\ UNCHANGED <<pc, caller, result>>

\* script.run returned Some(_): execute returns Ok(()).
ScriptReturn ==
  /\ pc = "script"
  /\ ~terminating
  /\ Commit([Cur EXCEPT !.last_call = NoCall])
  /\ pc' = "idle"
  /\ step' = "execute"
  /\ result' = "Ok"
  /\ UNCHANGED caller

\* script.run returned None: execute returns exception_to_err_result(..).
ScriptThrow ==
  /\ pc = "script"
  /\ LET s == exception_to_err_result(Cur, "script")
     IN /\ Commit([s EXCEPT !.last_call = NoCall])
        /\ result' = s.res
  /\ pc' = "idle"
  /\ step' = "execute"
  /\ UNCHANGED caller

\* The startup script run by shared_init finished; execute goes on to its script.
StartupReturnToExecute ==
  /\ pc = "startup"
  /\ ~terminating
  /\ caller = "execute"
  /\ Commit([Cur EXCEPT !.last_call = NoCall])
  /\ pc' = "script"
  /\ step' = "startup_return"
  /\ UNCHANGED <<caller, result>>

\* The startup script threw: self.execute(..).unwrap() panics.
StartupThrow ==
  /\ pc = "startup"
  /\ Commit([exception_to_err_result(Cur, "script") EXCEPT !.panic = TRUE])
  /\ pc' = "panicked"
  /\ step' = "startup_throw"
  /\ result' = "Panic"
  /\ UNCHANGED caller

PollFinish(s0) ==
  \E out \in poll_rest(s0) :
    /\ Commit(out)
    /\ result' = out.poll_result
    /\ pc' = IF out.poll_result = "Panic" THEN "panicked" ELSE "idle"
    /\ step' = "poll"
    /\ UNCHANGED caller

\* poll(), when shared_init has no startup script to run: the whole of it.
Poll ==
  /\ pc = "idle"
  /\ ~poll_begin(Cur).run_startup
  /\ PollFinish(poll_begin(Cur))

\* poll(), when shared_init runs the startup script first.
PollInit ==
  /\ pc = "idle"
  /\ poll_begin(Cur).run_startup
  /\ Commit(poll_begin(Cur))
  /\ pc' = "startup"
  /\ caller' = "poll"
  /\ step' = "poll_init"
  /\ result' = "none"

\* The startup script finished; poll goes on from check_promise_exceptions.
StartupReturnToPoll ==
  /\ pc = "startup"
  /\ ~terminating
  /\ caller = "poll"
  /\ PollFinish([Cur EXCEPT !.last_call = NoCall])

\* An op's future becomes complete (on whatever thread drives it).  Futures are
\* only looked at by poll, so a completion while a script runs is the same as
\* one right after it; it is taken between host calls.
CanComplete == pc = "idle"

CompleteFuture(i) ==
  /\ CanComplete
  /\ i \in 1..Len(pending_ops)
  /\ pending_ops[i].st = "waiting"
  /\ Commit([Cur EXCEPT !.pending_ops[i].st = "ready"])
  /\ step' = "complete"
  /\ UNCHANGED <<pc, caller, result>>

CompleteUnrefFuture(i) ==
  /\ CanComplete
  /\ i \in 1..Len(pending_unref_ops)
  /\ pending_unref_ops[i].st = "waiting"
  /\ Commit([Cur EXCEPT !.pending_unref_ops[i].st = "ready"])
  /\ step' = "complete"
  /\ UNCHANGED <<pc, caller, result>>

Next ==
  \/ ExecuteBegin
  \/ \E op_id \in OpIds, handler_op \in Ops : JsDispatch(op_id, handler_op)
  \/ JsDispatch(UnknownOpId, NoOp)
  \/ JsRecv
  \/ \E key \in PromiseKeys : JsReject(key)
  \/ \E key \in PromiseKeys : JsHandlerAdded(key)
  \/ ScriptReturn
  \/ ScriptThrow
  \/ StartupReturnToExecute
  \/ StartupThrow
  \/ Poll
  \/ PollInit
  \/ StartupReturnToPoll
  \/ \E i \in 1..MaxDispatch : CompleteFuture(i)
  \/ \E i \in 1..MaxDispatch : CompleteUnrefFuture(i)

Spec == Init /\ [][Next]_vars

\* The same driver with two promises JS may leave rejected and one registered
\* op whose handler returns a small async response: the runs in which a poll
\* finds more than one entry in the rejection table.
RejectKeys == {1, 2}
AsyncOps == [kind : {"Async"}, buf : {SmallBuf}, st : {"ready", "waiting"}]

RejectNext ==
  \/ ExecuteBegin
  \/ \E handler_op \in AsyncOps : JsDispatch(1, handler_op)
  \/ JsRecv
  \/ \E key \in RejectKeys : JsReject(key)
  \/ \E key \in RejectKeys : JsHandlerAdded(key)
  \/ ScriptReturn
  \/ ScriptThrow
  \/ StartupReturnToExecute
  \/ StartupThrow
  \/ Poll
  \/ PollInit
  \/ StartupReturnToPoll
  \/ \E i \in 1..MaxDispatch : CompleteFuture(i)

RejectSpec == Init /\ [][RejectNext]_vars

\* ---------------------------------------------------- construction, snapshot
\* StartupData: Script(..), Snapshot(..), OwnedSnapshot(..), None.
StartupData == {"Script", "Snapshot", "OwnedSnapshot", "None"}

\* Isolate::new(startup_data, will_snapshot).
\* (new_unchecked: without the assertion on load_snapshot.)
new_unchecked(startup_data, will_snapshot) ==
  [Cur EXCEPT !.new_args = <<[startup_data |-> startup_data,
                              will_snapshot |-> will_snapshot]>>,
              !.startup_script = (startup_data = "Script"),
              !.snapshot_creator = will_snapshot,
              !.has_snapshotted = FALSE,
              !.global_context = TRUE,
              !.v8_isolate = TRUE,
              !.engine = [isolate |-> "alive",
                          creator |-> IF will_snapshot THEN "alive" ELSE "none"],
              !.needs_init = TRUE]
new(startup_data, will_snapshot) ==
  LET load_snapshot == startup_data \in {"Snapshot", "OwnedSnapshot"}
      args == <<[startup_data |-> startup_data, will_snapshot |-> will_snapshot]>>
  IN IF will_snapshot /\ load_snapshot
       THEN \* assert!(load_snapshot.is_none())
            [Cur EXCEPT !.new_args = args, !.panic = TRUE]
       ELSE [Cur EXCEPT !.new_args = args,
                        !.startup_script = (startup_data = "Script"),
                        !.snapshot_creator = will_snapshot,
                        !.has_snapshotted = FALSE,
                        !.global_context = TRUE,
                        !.v8_isolate = TRUE,
                        !.engine = [isolate |-> "alive",
                                    creator |-> IF will_snapshot THEN "alive"
                                                ELSE "none"],
                        !.needs_init = TRUE]

\* A SnapshotCreator value going out of scope without an explicit drop (at
\* the end of its block or in an unwinding): its destructor runs if the type
\* has one, which the engine's bindings decide.
scope_end_creator(s) ==
  {[s EXCEPT !.engine.creator = fate] : fate \in {"destroyed", "leaked"}}

\* Isolate::snapshot.  What create_blob does on a creator that has already
\* produced a blob is the engine's business: it returns a blob or None (the
\* unwrap then panics, with the creator taken out of the state).
\* (snapshot_keeps_context: without global_context.reset.)
snapshot_keeps_context(s) ==
  IF ~s.snapshot_creator THEN {[s EXCEPT !.panic = TRUE]}
  ELSE {check_last_exception([s EXCEPT !.has_snapshotted = TRUE])}
snapshot(s) ==
  IF ~s.snapshot_creator
    THEN \* assert!(self.0.borrow().snapshot_creator.is_some())
         {[s EXCEPT !.panic = TRUE]}
    ELSE LET sv == get_v8_isolate(s)
             s1 == [sv EXCEPT !.global_context = FALSE]
             done == check_last_exception([s1 EXCEPT !.has_snapshotted = TRUE])
         IN IF sv.panic THEN {sv}
            ELSE IF s.has_snapshotted
              THEN {done} \cup
                   scope_end_creator([s1 EXCEPT !.snapshot_creator = FALSE,
                                                !.panic = TRUE])
              ELSE {done}

\* <Isolate as Drop>::drop, run for one Isolate value (the owner's, or one
\* made by from_v8).  The RefMut of `if let Some(creator) = self.0.borrow_mut()
\* .snapshot_creator.take()` is a temporary of the scrutinee and lives to the
\* end of the if let; a panic unwinds through the locals alive then.
drop_isolate(s) ==
  LET s1 == borrow_mut(s)
  IN IF s1.panic THEN {s1}
     ELSE IF ~s1.v8_isolate
       THEN \* .take().unwrap() on None
            {[s1 EXCEPT !.panic = TRUE]}
     ELSE
       LET s2 == drop_guard([s1 EXCEPT !.v8_isolate = FALSE])
           s3 == borrow_mut(s2)
       IN IF s3.panic THEN {[s3 EXCEPT !.engine.isolate = "destroyed"]}
          ELSE IF ~s3.snapshot_creator
            THEN \* drop(isolate)
                 {drop_guard([s3 EXCEPT !.engine.isolate = "destroyed"])}
          ELSE
            LET s4 == [s3 EXCEPT !.snapshot_creator = FALSE,
                                 \* std::mem::forget(isolate)
                                 !.engine.isolate = "leaked"]
                s5 == borrow(s4)
            IN IF s5.panic
                 THEN \* self.0.borrow(): already mutably borrowed
                      scope_end_creator(s5)
               ELSE IF s5.has_snapshotted
                 THEN \* drop(creator)
                      {drop_guard(drop_guard(
                         [s5 EXCEPT !.engine.creator = "destroyed"]))}
               ELSE {drop_guard(drop_guard(x)) : x \in scope_end_creator(s5)}

\* Before Isolate::new has been called.
LifecycleInit ==
  /\ pc = "unborn"
  /\ caller = "none"
  /\ step = "none"
  /\ result = "none"
  /\ needs_init = TRUE
  /\ startup_script = FALSE
  /\ last_exception = <<>>
  /\ pending_promise_exceptions = {}
  /\ js_recv_cb = FALSE
  /\ shared = EmptyQueue
  /\ pending_ops = <<>>
  /\ pending_unref_ops = <<>>
  /\ have_unpolled_ops = FALSE
  /\ waker_registered = FALSE
  /\ woken = FALSE
  /\ dispatch_count = 0
  /\ dispatch_calls = 0
  /\ last_call = NoCall
  /\ delivered = <<>>
  /\ yielded = <<>>
  /\ bootstrap_runs = 0
  /\ js_error_create = DefaultErrorCreate
  /\ error = <<>>
  /\ poll_trace = NoTrace
  /\ borrow_flag = 0
  /\ v8_isolate = FALSE
  /\ engine = [isolate |-> "none", creator |-> "none"]
  /\ handles = 0
  /\ snapshot_creator = FALSE
  /\ has_snapshotted = FALSE
  /\ global_context = FALSE
  /\ new_args = <<>>
  /\ terminating = FALSE
  /\ handled = <<>>

New(startup_data, will_snapshot) ==
  /\ pc = "unborn"
  /\ LET s == new(startup_data, will_snapshot)
     IN /\ Commit(s)
        /\ pc' = IF s.panic THEN "panicked" ELSE "idle"
        /\ result' = IF s.panic THEN "Panic" ELSE "none"
  /\ step' = "new"
  /\ UNCHANGED caller

Snapshot ==
  /\ pc = "idle"
  /\ \E s \in snapshot(Cur) :
       /\ Commit(s)
       /\ pc' = IF s.panic THEN "panicked" ELSE "idle"
       /\ result' = IF s.panic THEN "Panic" ELSE s.res
  /\ step' = "snapshot"
  /\ UNCHANGED caller

\* Isolate::from_v8: an Isolate value recovered from the engine's data slot.
\* The slot's pointer is the one Isolate::new stored, so the assertion on the
\* pointers holds; the reference count the slot owns stays with the slot.
from_v8(s) ==
  LET s1 == borrow(s)
  IN IF s1.panic THEN s1
     ELSE IF s1.magic_number # MagicNumber
       THEN \* assert_eq!(isolate_rc.borrow().magic_number, 0xCAFE_BABE)
            [s1 EXCEPT !.panic = TRUE]
     ELSE drop_guard([s1 EXCEPT !.handles = @ + 1])

\* The owning Isolate goes out of scope.
Drop ==
  /\ pc = "idle"
  /\ \E s \in drop_isolate(Cur) :
       /\ Commit(s)
       /\ pc' = IF s.panic THEN "panicked" ELSE "dropped"
       /\ result' = IF s.panic THEN "Panic" ELSE "none"
  /\ step' = "drop"
  /\ UNCHANGED caller

\* A native callback recovers the driver from the engine's isolate.
FromV8 ==
  /\ pc = "idle"
  /\ engine.isolate = "alive"
  /\ handles < MaxHandles
  /\ LET s == from_v8(Cur)
     IN /\ Commit(s)
        /\ pc' = IF s.panic THEN "panicked" ELSE pc
        /\ result' = IF s.panic THEN "Panic" ELSE "none"
  /\ step' = "from_v8"
  /\ UNCHANGED caller

\* An Isolate value made by from_v8 goes out of scope.
DropHandle ==
  /\ pc = "idle"
  /\ handles > 0
  /\ \E s \in drop_isolate([Cur EXCEPT !.handles = @ - 1]) :
       /\ Commit(s)
       /\ pc' = IF s.panic THEN "panicked" ELSE pc
       /\ result' = IF s.panic THEN "Panic" ELSE "none"
  /\ step' = "drop_handle"
  /\ UNCHANGED caller

LifecycleNext ==
  \/ \E startup_data \in StartupData, will_snapshot \in BOOLEAN :
       New(startup_data, will_snapshot)
  \/ Snapshot
  \/ Drop
  \/ FromV8
  \/ DropHandle
  \/ ExecuteBegin
  \/ \E handler_op \in AsyncOps : JsDispatch(1, handler_op)
  \/ ScriptReturn
  \/ ScriptThrow
  \/ StartupReturnToExecute
  \/ StartupThrow
  \/ Poll
  \/ PollInit
  \/ StartupReturnToPoll
  \/ \E i \in 1..MaxDispatch : CompleteFuture(i)

LifecycleSpec == LifecycleInit /\ [][LifecycleNext]_vars

\* ------------------------------------------------------------- termination
\* Another thread calls terminate_execution() on the handle obtained from
\* shared_isolate_handle while JS runs: the running script is aborted, and any
\* JS entered later is too, until termination is cancelled.
TerminateExecution ==
  /\ pc \in {"script", "startup"}
  /\ ~terminating
  /\ Commit(terminate_execution(Cur))
  /\ step' = "terminate"
  /\ UNCHANGED <<pc, caller, result>>

\* script.run returned None with the exception tc.exception() holds: a value
\* JS threw, or null / undefined.
ScriptThrowValue(exception) ==
  /\ pc = "script"
  /\ LET s == exception_to_err_result(Cur, exception)
     IN /\ Commit([s EXCEPT !.last_call = NoCall])
        /\ result' = s.res
  /\ pc' = "idle"
  /\ step' = "execute"
  /\ UNCHANGED caller

TerminationNext ==
  \/ ExecuteBegin
  \/ TerminateExecution
  \/ \E handler_op \in AsyncOps : JsDispatch(1, handler_op)
  \/ \E key \in PromiseKeys : JsReject(key)
  \/ ScriptReturn
  \/ \E exception \in {"script"} \cup NullOrUndefined : ScriptThrowValue(exception)
  \/ StartupReturnToExecute
  \/ StartupThrow
  \/ Poll
  \/ PollInit
  \/ StartupReturnToPoll
  \/ \E i \in 1..MaxDispatch : CompleteFuture(i)

TerminationSpec == Init /\ [][TerminationNext]_vars

\* ------------------------------------------------------ JS breaking protocol
\* The queue's bytes are a SharedArrayBuffer JS holds (shared_ab): a script may
\* write a record into it itself, and so enter core.dispatch with a record
\* unshifted.  fid 0: the record is no future's response.
JsWriteShared ==
  /\ InJs
  /\ size(shared) = 0
  /\ delivered = <<>>
  /\ Commit([Cur EXCEPT !.shared = push(EmptyQueue,
                           [fid |-> 0, op_id |-> 1, buf |-> SmallBuf])])
  /\ step' = "js"
  /\ UNCHANGED <<pc, caller, result>>

ReentryNext ==
  \/ ExecuteBegin
  \/ JsWriteShared
  \/ JsRecv
  \/ \E handler_op \in AsyncOps : JsDispatch(1, handler_op)
  \/ ScriptReturn
  \/ ScriptThrow
  \/ StartupReturnToExecute
  \/ StartupThrow
  \/ Poll
  \/ PollInit
  \/ StartupReturnToPoll
  \/ \E i \in 1..MaxDispatch : CompleteFuture(i)

ReentrySpec == Init /\ [][ReentryNext]_vars

\* ------------------------------------------------------ error construction
\* set_js_error_create, called by the embedder between operations.
SetJsErrorCreate(f) ==
  /\ pc = "idle"
  /\ f # js_error_create
  /\ Commit([Cur EXCEPT !.js_error_create = f])
  /\ step' = "set_js_error_create"
  /\ UNCHANGED <<pc, caller, result>>

\* The three ways an operation fails: the script throws, a rejected promise is
\* found by poll, the receive callback throws (reached here through a record
\* the script wrote itself, as no poll of this code pushes one).
ErrorNext ==
  \/ \E f \in ErrorCreators : SetJsErrorCreate(f)
  \/ ExecuteBegin
  \/ JsRecv
  \/ JsWriteShared
  \/ \E key \in PromiseKeys : JsReject(key)
  \/ ScriptReturn
  \/ ScriptThrow
  \/ StartupReturnToExecute
  \/ StartupThrow
  \/ Poll
  \/ PollInit
  \/ StartupReturnToPoll

ErrorSpec == Init /\ [][ErrorNext]_vars
\* ================================================================== claims
Range(q) == {q[k] : k \in 1..Len(q)}

\* C1 (idle rule): a poll that returns without an error returns Ready(Ok) if
\* and only if pending_ops is empty at its readiness check, whatever
\* pending_unref_ops holds.
C1_IdleRule ==
  (step = "poll" /\ result \in {"ReadyOk", "Pending"})
    => (result = "ReadyOk" <=> pending_ops = <<>>)

\* A poll reported ready while pending_unref_ops holds a future that has not
\* completed.
C1_Witness ==
  /\ step = "poll"
  /\ result = "ReadyOk"
  /\ \E k \in 1..Len(pending_unref_ops) : pending_unref_ops[k].st = "waiting"

C4_SyncFrame ==
  [][(step' = "dispatch" /\ last_call'.kind = "Sync") =>
       /\ last_call'.ret = <<[op_id |-> 0, buf |-> last_call'.buf[1]]>>
       /\ pending_ops' = pending_ops
       /\ pending_unref_ops' = pending_unref_ops
       /\ shared' = shared
       /\ have_unpolled_ops' = have_unpolled_ops
       /\ delivered' = delivered
       /\ pc' = pc]_vars

\* A sync dispatch returned a payload larger than the whole queue, under id 0,
\* while the unpolled-ops flag is clear.
C4_Witness ==
  /\ step = "dispatch"
  /\ last_call.kind = "Sync"
  /\ last_call.op_id \in OpIds
  /\ last_call.ret = <<[op_id |-> 0, buf |-> BigBuf]>>
  /\ ~have_unpolled_ops

\* C5: a dispatch whose handler returns Async returns nothing and appends one
\* entry to pending_ops, leaving pending_unref_ops alone; AsyncUnref appends one
\* entry to pending_unref_ops, leaving pending_ops alone; both set the
\* unpolled-ops flag and leave the queue alone.
C5_AsyncFrame ==
  [][(step' = "dispatch" /\ last_call'.kind \in {"Async", "AsyncUnref"}) =>
       /\ last_call'.ret = <<>>
       /\ have_unpolled_ops'
       /\ shared' = shared
       /\ last_call'.kind = "Async" =>
            /\ Len(pending_ops') = Len(pending_ops) + 1
            /\ SubSeq(pending_ops', 1, Len(pending_ops)) = pending_ops
            /\ pending_unref_ops' = pending_unref_ops
       /\ last_call'.kind = "AsyncUnref" =>
            /\ Len(pending_unref_ops') = Len(pending_unref_ops) + 1
            /\ SubSeq(pending_unref_ops', 1, Len(pending_unref_ops))
                 = pending_unref_ops
            /\ pending_ops' = pending_ops]_vars

\* An AsyncUnref dispatch has just returned, after an Async one: each set holds
\* one entry.
C5_Witness ==
  /\ step = "dispatch"
  /\ last_call.kind = "AsyncUnref"
  /\ Len(pending_unref_ops) = 1
  /\ Len(pending_ops) = 1
  /\ have_unpolled_ops
\* The record of a future, as the receive callback gets it.
Response(fut, via) ==
  [fid |-> fut.fid, op_id |-> fut.op_id, buf |-> fut.buf, via |-> via]

\* The receive callback is registered and no promise rejection is waiting: a
\* poll has nothing to report but op responses.
CanDeliver == js_recv_cb /\ pending_promise_exceptions = {}

\* C7 (delayed delivery): nothing is delivered while a script runs or when
\* execute returns; a poll that starts with an empty queue and exactly one
\* pending op, already complete, hands that response to the receive callback exactly once and
\* returns Ready(Ok), unless the callback itself throws or dispatches again.
C7_DelayedDelivery ==
  [][/\ (InJs' \/ step' = "execute") => delivered' = delivered
     /\ (/\ step' = "poll"
         /\ Len(pending_ops) = 1
         /\ pending_ops[1].st = "ready"
         /\ size(shared) = 0
         /\ CanDeliver)
        => \/ result' = "ReadyErr"
           \/ dispatch_calls' # dispatch_calls
           \/ /\ \E via \in {"queue", "overflow"} :
                   delivered' = Append(delivered, Response(pending_ops[1], via))
              /\ result' = "ReadyOk"]_vars

\* C8: poll drains pending_unref_ops too: once a poll has returned Ready(Ok)
\* without ever having stopped at an overflow response, no completed future is
\* left in pending_unref_ops.
C8_UnrefDrained ==
  (/\ step = "poll"
   /\ result = "ReadyOk"
   /\ \A d \in Range(delivered) : d.via # "overflow")
    => \A k \in 1..Len(pending_unref_ops) : pending_unref_ops[k].st # "ready"

\* C9 (overflow path): a poll that starts with one pending op, complete, whose
\* payload does not fit the empty queue, hands exactly that (op_id, payload) to
\* the receive callback as its arguments, once, in that same poll.
C9_OverflowPath ==
  [][(/\ step' = "poll"
      /\ Len(pending_ops) = 1
      /\ pending_ops[1].st = "ready"
      /\ ~push_fits(shared, pending_ops[1].buf)
      /\ size(shared) = 0
      /\ CanDeliver)
     => delivered' = Append(delivered, Response(pending_ops[1], "overflow"))]_vars

\* C10: a poll that starts with two pending ops, both complete, one of them too
\* large for the queue, does not abort, delivers no response twice, delivers at
\* least one response, and returns Ready(Ok) only when both have been
\* delivered (unless the callback itself throws or dispatches again).
C10_OverflowCompletesAll ==
  [][(/\ step' = "poll"
      /\ Len(pending_ops) = 2
      /\ \A k \in 1..2 : pending_ops[k].st = "ready"
      /\ \E k \in 1..2 : ~push_fits(EmptyQueue, pending_ops[k].buf)
      /\ size(shared) = 0
      /\ CanDeliver)
     => \/ dispatch_calls' # dispatch_calls
        \/ /\ result' # "Panic"
           /\ \A i, j \in 1..Len(delivered') :
                delivered'[i].fid = delivered'[j].fid => i = j
           /\ result' \in {"ReadyOk", "Pending"} =>
                Len(delivered') > Len(delivered)
           /\ result' = "ReadyOk" =>
                \A k \in 1..2 :
                  \E i \in 1..Len(delivered') :
                    delivered'[i].fid = pending_ops[k].fid]_vars

\* C11: a dispatch with an op id that is not registered throws into JS, returns
\* no payload, runs no handler and changes neither pending set, nor the
\* unpolled-ops flag, nor the queue, nor anything a later poll reports as an
\* error (the exception stash, the rejection table); a poll returns an error
\* only for a rejection in the table or out of the receive callback.
C11_UnknownOpId ==
  [][/\ (step' = "dispatch" /\ last_call'.op_id \notin OpIds) =>
          /\ last_call'.thrown
          /\ last_call'.ret = <<>>
          /\ last_call'.kind = "unknown"
          /\ dispatch_count' = dispatch_count
          /\ pending_ops' = pending_ops
          /\ pending_unref_ops' = pending_unref_ops
          /\ have_unpolled_ops' = have_unpolled_ops
          /\ shared' = shared
          /\ last_exception' = last_exception
          /\ pending_promise_exceptions' = pending_promise_exceptions
          /\ pc' = pc
     /\ (step' = "poll" /\ result' = "ReadyErr") =>
          \/ pending_promise_exceptions # {}
          \/ js_recv_cb /\ (ReadyIdx(pending_ops) # {} \/ size(shared) > 0)]_vars

\* A dispatch of id 100 has just thrown, in a script run after a poll left one
\* op pending with the unpolled-ops flag cleared: both are as they were.
C11_Witness ==
  /\ step = "dispatch"
  /\ last_call.op_id = UnknownOpId
  /\ last_call.thrown
  /\ Len(pending_ops) = 1
  /\ ~have_unpolled_ops

\* C12: within one poll the responses reach JS in the order in which their
\* futures were yielded as complete: a poll that starts with an empty queue and
\* no failing future hands to the receive callback exactly the responses
\* pending_ops yielded in this poll, in that order (unless the callback itself
\* throws or dispatches again).
C12_CompletionOrder ==
  [][(/\ step' = "poll"
      /\ size(shared) = 0
      /\ \A k \in 1..Len(pending_ops) : pending_ops[k].st # "err"
      /\ CanDeliver)
     => \/ result' = "ReadyErr"
        \/ dispatch_calls' # dispatch_calls
        \/ /\ Len(delivered') = Len(delivered) + Len(yielded')
           /\ \A k \in 1..Len(yielded') :
                delivered'[Len(delivered) + k].fid = yielded'[k].fid]_vars

\* C13: a poll that finds the promise-rejection table non-empty removes exactly
\* one entry and returns it as an error before polling any pending future,
\* pushing to the queue or calling the receive callback: pending_ops,
\* pending_unref_ops and the queue are as before the poll, nothing was yielded
\* or delivered, and the other entries of the table remain.
C13_RejectionFirst ==
  [][(step' = "poll" /\ pending_promise_exceptions # {}) =>
       /\ result' = "ReadyErr"
       /\ pending_promise_exceptions' \subseteq pending_promise_exceptions
       /\ Cardinality(pending_promise_exceptions') =
            Cardinality(pending_promise_exceptions) - 1
       /\ pending_ops' = pending_ops
       /\ pending_unref_ops' = pending_unref_ops
       /\ shared' = shared
       /\ have_unpolled_ops' = have_unpolled_ops
       /\ yielded' = <<>>
       /\ delivered' = delivered]_vars

\* A poll returned a rejection as an error; another entry is still in the table
\* and a completed future is still in pending_ops.
C13_Witness ==
  /\ step = "poll"
  /\ result = "ReadyErr"
  /\ Cardinality(pending_promise_exceptions) = 1
  /\ \E k \in 1..Len(pending_ops) : pending_ops[k].st = "ready"

C15_OneShotInit ==
  /\ [](bootstrap_runs = IF needs_init THEN 0 ELSE 1)
  /\ [](step # "new" => ~needs_init)
  /\ [](~needs_init => ~startup_script)
  /\ []((pc = "script" \/ yielded # <<>>) => (bootstrap_runs = 1 /\ ~startup_script))
  /\ [][~needs_init => ~needs_init']_vars
  /\ [][(pc' = "startup" /\ pc # "startup") =>
          (needs_init /\ startup_script /\ ~needs_init' /\ bootstrap_runs' = 1)]_vars

\* An execute that is not the first call (an op is pending from an earlier
\* script) has started its script without running init again.
C15_Witness ==
  /\ step = "execute_begin"
  /\ pc = "script"
  /\ Len(pending_ops) = 1
  /\ bootstrap_runs = 1

\* C16 (snapshot lifecycle): snapshot() on an isolate without a snapshot
\* creator fails fatally and changes nothing; a snapshot() that returns has
\* reset the global context handle and set has_snapshotted; has_snapshotted is
\* false after construction, set by snapshot() only and never cleared; once it
\* is set, no execute runs a script and no execute or poll returns Ok, Ready(Ok)
\* or Pending.
C16_SnapshotLifecycle ==
  /\ [](step = "new" => ~has_snapshotted)
  /\ [][(step' = "snapshot" /\ ~snapshot_creator) =>
          /\ result' = "Panic"
          /\ has_snapshotted' = has_snapshotted
          /\ global_context' = global_context]_vars
  /\ [][(step' = "snapshot" /\ result' # "Panic") =>
          (snapshot_creator /\ ~global_context' /\ has_snapshotted')]_vars
  /\ [][has_snapshotted => has_snapshotted']_vars
  /\ [][(has_snapshotted' /\ ~has_snapshotted) => step' = "snapshot"]_vars
  /\ [][(has_snapshotted /\ step' \in {"execute_begin", "execute", "poll_init", "poll"}) =>
          /\ result' \notin {"Ok", "ReadyOk", "Pending"}
          /\ ~InJs']_vars

\* After a script ran and snapshot() returned Ok, an execute was called: it
\* panicked on the empty global context handle.
C16_Witness ==
  /\ has_snapshotted
  /\ ~needs_init
  /\ step = "execute_begin"
  /\ result = "Panic"

\* C17: Isolate::new with will_snapshot and a snapshot to load (borrowed or
\* owned) fails on an assertion, and only then; an isolate constructed with
\* will_snapshot owns a snapshot creator, one constructed without does not, and
\* no later operation that returns changes that.
C17_SnapshotCreator ==
  /\ [](step = "new" =>
          /\ (pc = "panicked" <=>
                (/\ new_args[1].will_snapshot
                 /\ new_args[1].startup_data \in {"Snapshot", "OwnedSnapshot"}))
          /\ pc # "panicked" => (snapshot_creator <=> new_args[1].will_snapshot))
  /\ [][(pc \notin {"unborn", "panicked"} /\ pc' # "panicked") =>
          snapshot_creator' = snapshot_creator]_vars

\* Isolate::new was called with will_snapshot and an owned snapshot to load:
\* it panicked.
C17_Witness ==
  /\ step = "new"
  /\ new_args[1].will_snapshot
  /\ new_args[1].startup_data = "OwnedSnapshot"
  /\ result = "Panic"

\* C18: when pending_ops yields a future that completed with an error, the
\* poll panics there: it returns no result, that future is the last one
\* yielded, no record of it is in the queue, and the receive callback is not
\* called in this poll.
C18_OpErrorPanics ==
  [][(/\ step' = "poll"
      /\ \E k \in 1..Len(yielded') : yielded'[k].st = "err")
     => /\ result' = "Panic"
        /\ pc' = "panicked"
        /\ yielded'[Len(yielded')].st = "err"
        /\ \A k \in 1..(Len(yielded') - 1) : yielded'[k].st # "err"
        /\ \A r \in Range(shared'.records) :
             r.fid # yielded'[Len(yielded')].fid
        /\ delivered' = delivered]_vars

\* A poll panicked on a future that completed with an error, with the receive
\* callback registered and nothing ever delivered.
C18_Witness ==
  /\ step = "poll"
  /\ result = "Panic"
  /\ yielded # <<>>
  /\ yielded[Len(yielded)].st = "err"
  /\ js_recv_cb
  /\ delivered = <<>>

C20_TerminationPreserved ==
  /\ [](handled # <<>> =>
          /\ ~handled[1].at_message
          /\ handled[1].on_return = handled[1].was_terminating
          /\ terminating = handled[1].was_terminating
          /\ handled[1].last_exception =
               <<IF handled[1].was_terminating
                    /\ handled[1].exception \in NullOrUndefined
                   THEN "execution terminated"
                   ELSE handled[1].exception>>)
  /\ [][terminating' # terminating => step' = "terminate"]_vars

\* A script was terminated from another thread and ended with a null
\* exception: execute returned an error made from "execution terminated", and
\* the engine is terminating again.
C20_Witness ==
  /\ step = "execute"
  /\ result = "Err"
  /\ handled # <<>>
  /\ handled[1].was_terminating
  /\ handled[1].exception = "null"
  /\ handled[1].last_exception = <<"execution terminated">>
  /\ terminating

\* C21: a core.dispatch of a registered op entered while the shared queue holds
\* an unshifted record throws an error into JS at the call site: the call
\* returns to the running script, having thrown, and the op is not accepted
\* (nothing returned, nothing added to either pending set).
C21_ReentryIsTypeError ==
  [][(/\ step' = "dispatch"
      /\ last_call'.op_id \in OpIds
      /\ size(shared) > 0)
     => /\ pc' = pc
        /\ last_call'.thrown
        /\ last_call'.ret = <<>>
        /\ pending_ops' = pending_ops
        /\ pending_unref_ops' = pending_unref_ops]_vars

\* C22: an operation that fails returns the error the configured constructor
\* builds from the exception caught in that very operation, and the stash is
\* consumed: last_exception is empty whenever an operation has returned, an
\* operation that catches nothing returns no error, and an execute whose
\* script returns normally is Ok even right after a failure.
C22_ErrorOnce ==
  /\ [](last_exception = <<>>)
  /\ [][/\ (step' \in {"execute", "poll"} /\ result' \in {"Err", "ReadyErr"})
           => /\ handled' # <<>>
              /\ error' = <<[create |-> js_error_create,
                             exception |-> handled'[1].last_exception[1]]>>
        /\ (step' \in {"execute", "poll"} /\ handled' = <<>>)
           => (error' = <<>> /\ result' \notin {"Err", "ReadyErr"})
        /\ (pc = "script" /\ step' = "execute" /\ handled' = <<>>)
           => result' = "Ok"]_vars

C22_Witness ==
  /\ step = "poll"
  /\ result = "ReadyErr"
  /\ error = <<[create |-> "custom", exception |-> "recv"]>>
  /\ last_exception = <<>>

\* C23: in a poll that gets past its loop with a receiver registered, the
\* receive callback is called with no arguments if and only if the queue holds
\* a record then, at most once and before any other call; if that call returns
\* without throwing while a record is still unshifted, the poll panics.
C23_ZeroArgCall ==
  [][(step' = "poll" /\ poll_trace'.after_drain # <<>> /\ js_recv_cb)
     => LET calls == poll_trace'.recv_calls
            zero == {k \in 1..Len(calls) : calls[k].arg = <<>>}
        IN /\ (zero # {}) <=> (poll_trace'.after_drain[1] > 0)
           /\ zero \subseteq {1}
           /\ \A k \in zero :
                /\ calls[k].queue_before = poll_trace'.after_drain[1]
                /\ (~calls[k].threw /\ calls[k].queue_after > 0)
                     => result' = "Panic"]_vars

\* A zero-argument call that returned normally with the record left unshifted.
C23_Witness ==
  /\ step = "poll"
  /\ result = "Panic"
  /\ poll_trace.after_drain = <<1>>
  /\ Len(poll_trace.recv_calls) = 1
  /\ poll_trace.recv_calls[1].arg = <<>>
  /\ ~poll_trace.recv_calls[1].threw
  /\ poll_trace.recv_calls[1].queue_after = 1
  /\ last_call = NoCall

\* C24: the driver-state cell is unborrowed wherever JS runs: while a script
\* or the startup script runs in execute, and at every call of the receive
\* callback in poll; so an op dispatched from a script with the queue empty,
\* and a promise rejection, never panic.
C24_NoBorrowAcrossJs ==
  /\ [](pc \in {"script", "startup"} => can_borrow_mut(borrow_flag))
  /\ [][/\ step' = "poll" =>
             \A k \in 1..Len(poll_trace'.recv_calls) :
               can_borrow_mut(poll_trace'.recv_calls[k].borrow_flag)
        /\ (step' = "dispatch" /\ size(shared) = 0) => pc' = pc
        /\ (step' = "js" /\ pc \in {"script", "startup"}) => pc' = pc]_vars

\* An op dispatched from inside the receive callback was stored.
C24_Witness ==
  /\ step = "poll"
  /\ result = "Pending"
  /\ Len(poll_trace.recv_calls) = 1
  /\ dispatch_calls = 1
  /\ Len(pending_ops) = 1

\* C25: no operation asks for a borrow of the driver-state cell that conflicts
\* with one it still holds: no operation stops on a refused borrow, so wherever
\* an operation has panicked the cell was unborrowed.
C25_NoConflictingBorrow ==
  pc = "panicked" => can_borrow_mut(borrow_flag)

C27_NoResponseDropped ==
  [][step' = "poll"
     => \A k \in 1..Len(yielded') :
          yielded'[k].st = "ready"
          => \/ \E i \in 1..Len(delivered') : delivered'[i].fid = yielded'[k].fid
             \/ \E r \in Range(shifted(shared', size(shared'))) :
                  r.fid = yielded'[k].fid]_vars

\* C28: when an isolate that owns a snapshot creator is dropped, the engine's
\* isolate is leaked and the creator is destroyed only if has_snapshotted;
\* when an isolate without a creator is dropped, the engine's isolate is
\* destroyed.
C28_DropLeaksOrDestroys ==
  [][(step' = "drop" /\ v8_isolate)
     => IF snapshot_creator
          THEN /\ engine'.isolate = "leaked"
               /\ (engine'.creator = "destroyed") => has_snapshotted
          ELSE engine'.isolate = "destroyed"]_vars

\* C29: making and dropping an Isolate value with from_v8 leaves the engine's
\* isolate in the driver state; it is taken out only by the drop of the owning
\* Isolate, and no drop finds it taken already.
C29_HandleDropKeepsIsolate ==
  [][/\ step' = "from_v8" => (pc' = pc /\ v8_isolate' = v8_isolate)
     /\ step' = "drop_handle" => (pc' = pc /\ v8_isolate' = v8_isolate)
     /\ step' = "drop" => v8_isolate]_vars

\* C30: the receive callback is needed only when there is something to
\* deliver: a poll in which pending_ops yields nothing and that finds the queue
\* empty calls nothing and, no rejection pending, returns Ready(Ok) or Pending
\* whether or not a receiver is registered; a poll calls the callback at most
\* twice, at most once without arguments and at most once with an overflow
\* record; a poll that has a record to deliver and no receiver panics, calling
\* nothing and building no error.
C30_ReceiverOnlyToDeliver ==
  [][step' = "poll"
     => LET calls == poll_trace'.recv_calls
            zero == {k \in 1..Len(calls) : calls[k].arg = <<>>}
            over == {k \in 1..Len(calls) : calls[k].arg # <<>>}
        IN /\ (yielded' = <<>> /\ size(shared) = 0)
                => /\ calls = <<>>
                   /\ pending_promise_exceptions = {}
                        => result' = IF pending_ops = <<>> THEN "ReadyOk"
                                     ELSE "Pending"
           /\ Cardinality(zero) <= 1
           /\ Cardinality(over) <= 1
           /\ (~js_recv_cb /\ poll_trace'.after_drain # <<>>
                /\ size(shared) > 0)
                => (result' = "Panic" /\ calls = <<>> /\ error' = <<>>)]_vars

\* A record in the queue and no receiver: the poll panicked after its loop.
C30_Witness ==
  /\ step = "poll"
  /\ result = "Panic"
  /\ ~js_recv_cb
  /\ poll_trace = [after_drain |-> <<1>>, recv_calls |-> <<>>]
====
